---- MODULE Spec2Model ----
(***************************************************************************)
(* A model of package mux (kevinfalting/mux): the Mux router facade with   *)
(* its middleware wrapping and prefix groups, the per-method dispatcher    *)
(* built by Methods, and the error-returning handler adapter               *)
(* ErrorHandler.Err.                                                       *)
(*                                                                         *)
(* Strings that the code takes apart or puts together (paths, method      *)
(* names, header values) are sequences of one-character strings.           *)
(***************************************************************************)
EXTENDS Integers, Sequences, FiniteSets, TLC

VARIABLES
    \* ---- Mux (part_000) ----
    muxpc,      \* "new" before New has run, then "ready", "serving" from the first request on
    mw,         \* Mux.mw: the mux-level middleware, in order
    newArgs,    \* history: the middleware list New was called with
    routes,     \* Mux.mux: the ServeMux table, pattern -> composed handler
    regs,       \* history: pattern -> what was passed to Handle / Group
    rstate,     \* position of the request in flight: "idle", "down", "up", "done"
    reqPath,    \* r.URL.Path as received
    curPath,    \* r.URL.Path as seen by the layer about to run
    chain,      \* the composed handler serving the request
    idx,        \* the layer of chain that runs next
    trace,      \* history: what ran for this request, in order
    status,     \* status code written so far (0: none)
    matched,    \* the pattern the ServeMux chose (<<>>: none)
    \* ---- Methods (methods.go) ----
    mpc,        \* "args", "apply", "built", "panic"
    opts,       \* the options passed to Methods: closures of WithMethod
    applied,    \* how many options Methods has applied
    methodHandlers, \* the method table
    allowValue, \* the string the synthesized OPTIONS handler closes over
    panicMsg,   \* the value Methods or WithMethod panicked with ("": none)
    mreq,       \* r.Method of the last request (<<>>: none yet)
    mresp,      \* the response to the last request
    \* ---- ErrorHandler (errors.go) ----
    epc,        \* "new", "ready", "done"
    writer,     \* ErrorHandler.writer
    errFunc,    \* ErrorHandler.errFunc
    retErr,     \* what the wrapped function returned
    events      \* history: the calls made while serving the last request

muxVars == <<muxpc, mw, newArgs, routes, regs, rstate, reqPath, curPath, chain, idx,
             trace, status, matched>>
methVars == <<mpc, opts, applied, methodHandlers, allowValue, panicMsg, mreq, mresp>>
errVars == <<epc, writer, errFunc, retErr, events>>
vars == <<muxVars, methVars, errVars>>

(***************************************************************************)
(* Bounds                                                                  *)
(***************************************************************************)
MaxMW == 2        \* longest middleware list passed to New / Handle / Group
MaxOpts == 3      \* longest option list passed to Methods
MaxErrOpts == 2   \* longest option list passed to NewErrorHandler
MaxWrap == 1      \* deepest fmt.Errorf("%w") wrapping of a returned error

(***************************************************************************)
(* strings                                                                 *)
(***************************************************************************)
HasPrefix(s, p) == Len(p) <= Len(s) /\ SubSeq(s, 1, Len(p)) = p

HasSuffix(s, p) == Len(p) <= Len(s) /\ SubSeq(s, Len(s) - Len(p) + 1, Len(s)) = p

TrimPrefix(s, p) == IF HasPrefix(s, p) THEN SubSeq(s, Len(p) + 1, Len(s)) ELSE s

TrimSuffix(s, p) == IF HasSuffix(s, p) THEN SubSeq(s, 1, Len(s) - Len(p)) ELSE s

Slash == <<"/">>

RECURSIVE SeqsUpTo(_, _)
SeqsUpTo(S, n) ==
    IF n = 0 THEN {<<>>}
    ELSE LET shorter == SeqsUpTo(S, n - 1)
         IN  shorter \cup {Append(s, x) : s \in shorter, x \in S}

(***************************************************************************)
(* Mux: handlers                                                           *)
(*                                                                         *)
(* A composed handler is the list of its layers, outermost first, the     *)
(* last one a plain handler.  A middleware is a decorator that runs its   *)
(* pre-logic, calls the handler it wraps once, then runs its post-logic.  *)
(***************************************************************************)
Middlewares == {"a", "b"}
Handlers == {"h1", "h2"}
PatRoot == <<"/">>
PatApi == <<"/", "a", "p", "i", "/">>
Patterns == {PatRoot, PatApi}
\* request paths, as the server hands them over: cleaned, and with no
\* separately encoded form (URL.RawPath is empty)
Paths == {<<"/">>, <<"/", "w">>, <<"/", "a", "p", "i">>,
          <<"/", "a", "p", "i", "/">>, <<"/", "a", "p", "i", "/", "w">>}

NoPath == <<>>

Layer(k, n, p) == [kind |-> k, name |-> n, prefix |-> p]

Handler(name) == <<Layer("handler", name, NoPath)>>

\* a Middleware applied to a handler: m(next)
ApplyMiddleware(m, next) == <<Layer("mw", m, NoPath)>> \o next

\* WrapMiddleware(mw, handler): the first middleware ends up outermost
RECURSIVE WrapMiddleware(_, _)
WrapMiddleware(mws, handler) ==
    IF mws = <<>> THEN handler
    ELSE WrapMiddleware(SubSeq(mws, 1, Len(mws) - 1),
                        ApplyMiddleware(mws[Len(mws)], handler))

\* http.StripPrefix(prefix, h)
StripPrefix(prefix, h) ==
    IF prefix = <<>> THEN h ELSE <<Layer("strip", "", prefix)>> \o h

(***************************************************************************)
(* Mux: construction and registration                                      *)
(***************************************************************************)
Put(f, k, v) == [x \in DOMAIN f \cup {k} |-> IF x = k THEN v ELSE f[x]]

EmptyMap == [x \in {} |-> <<>>]

\* func New(mw ...Middleware) *Mux
New(mws) ==
    /\ mw' = mws
    /\ routes' = EmptyMap

\* the order of the two wraps exchanged: call-level middleware outermost
HandleCallLevelOutermost(pattern, handler, cmw) ==
    routes' = Put(routes, pattern,
                  WrapMiddleware(cmw, WrapMiddleware(mw, handler)))

\* every registration treated as a prefix group
HandleStripsPattern(pattern, handler, cmw) ==
    routes' = Put(routes, pattern,
                  WrapMiddleware(mw, WrapMiddleware(cmw,
                      StripPrefix(TrimSuffix(pattern, Slash), handler))))

\* func (m *Mux) Handle(pattern, handler, mw ...Middleware)
Handle(pattern, handler, cmw) ==
    routes' = Put(routes, pattern,
                  WrapMiddleware(mw, WrapMiddleware(cmw, handler)))

\* func (m *Mux) HandleFunc(pattern, handler, mw ...Middleware)
HandleFunc(pattern, handler, cmw) == Handle(pattern, handler, cmw)

\* the whole prefix stripped, trailing slash included
GroupStripsWholePrefix(prefix, h, cmw) ==
    Handle(prefix, StripPrefix(prefix, h), cmw)

\* func (m *Mux) Group(prefix, h, mw ...Middleware)
Group(prefix, h, cmw) ==
    Handle(prefix, StripPrefix(TrimSuffix(prefix, Slash), h), cmw)

MWLists == SeqsUpTo(Middlewares, MaxMW)

Registration(via, h, cmw) == [via |-> via, h |-> h, cmw |-> cmw]

MuxRequestIdle ==
    /\ rstate = "idle"
    /\ UNCHANGED <<rstate, reqPath, curPath, chain, idx, trace, status, matched>>

CallNew ==
    /\ muxpc = "new"
    /\ \E mws \in MWLists :
          /\ New(mws)
          /\ newArgs' = mws
    /\ muxpc' = "ready"
    /\ regs' = EmptyMap
    /\ MuxRequestIdle
    /\ UNCHANGED <<methVars, errVars>>

\* http.ServeMux.Handle panics on a pattern registered twice: a program
\* registers each pattern once.
CallHandle ==
    /\ muxpc = "ready"
    /\ \E pattern \in Patterns \ DOMAIN routes, h \in Handlers, cmw \in MWLists :
          /\ Handle(pattern, Handler(h), cmw)
          /\ regs' = Put(regs, pattern, Registration("Handle", h, cmw))
    /\ MuxRequestIdle
    /\ UNCHANGED <<muxpc, mw, newArgs, methVars, errVars>>

CallHandleFunc ==
    /\ muxpc = "ready"
    /\ \E pattern \in Patterns \ DOMAIN routes, h \in Handlers, cmw \in MWLists :
          /\ HandleFunc(pattern, Handler(h), cmw)
          /\ regs' = Put(regs, pattern, Registration("Handle", h, cmw))
    /\ MuxRequestIdle
    /\ UNCHANGED <<muxpc, mw, newArgs, methVars, errVars>>

CallGroup ==
    /\ muxpc = "ready"
    /\ \E prefix \in Patterns \ DOMAIN routes, h \in Handlers, cmw \in MWLists :
          /\ Group(prefix, Handler(h), cmw)
          /\ regs' = Put(regs, prefix, Registration("Group", h, cmw))
    /\ MuxRequestIdle
    /\ UNCHANGED <<muxpc, mw, newArgs, methVars, errVars>>

(***************************************************************************)
(* Mux: serving a request                                                  *)
(***************************************************************************)
\* the patterns http.ServeMux matches path against: a pattern ending in "/"
\* names a subtree, any other pattern a single path
Candidates(path) ==
    {p \in DOMAIN routes : p = path \/ (HasSuffix(p, Slash) /\ HasPrefix(path, p))}

\* http.ServeMux: the longest matching pattern wins
Match(path) ==
    LET c == Candidates(path)
    IN  IF c = {} THEN NoPath
        ELSE CHOOSE p \in c : \A q \in c : Len(q) <= Len(p)

\* http.ServeMux: a path whose only registration is the subtree path + "/"
\* is redirected to it
RedirectToPathSlash(path) ==
    /\ path \notin DOMAIN routes
    /\ (path \o Slash) \in DOMAIN routes

Event(e, n, p) == [ev |-> e, name |-> n, path |-> p]

\* where control is after the call into layer i + 1 has returned to layer i
After(i) == IF i = 0 THEN "done" ELSE "up"

\* func (m *Mux) ServeHTTP(w, r): m.mux.ServeHTTP(w, r)
ServeHTTP(path) ==
    /\ reqPath' = path
    /\ curPath' = path
    /\ trace' = <<>>
    /\ IF RedirectToPathSlash(path)
       THEN /\ status' = 301
            /\ matched' = NoPath /\ chain' = <<>> /\ idx' = 0 /\ rstate' = "done"
       ELSE IF Match(path) = NoPath
       THEN /\ status' = 404
            /\ matched' = NoPath /\ chain' = <<>> /\ idx' = 0 /\ rstate' = "done"
       ELSE /\ status' = 0
            /\ matched' = Match(path)
            /\ chain' = routes[Match(path)]
            /\ idx' = 1
            /\ rstate' = "down"

CallServeHTTP ==
    /\ muxpc \in {"ready", "serving"}
    /\ rstate \in {"idle", "done"}
    /\ \E path \in Paths : ServeHTTP(path)
    /\ muxpc' = "serving"
    /\ UNCHANGED <<mw, newArgs, routes, regs, methVars, errVars>>

\* a middleware's handler is called: its pre-logic runs, then it calls next
EnterMiddleware ==
    /\ rstate = "down"
    /\ chain[idx].kind = "mw"
    /\ trace' = Append(trace, Event("pre", chain[idx].name, NoPath))
    /\ idx' = idx + 1
    /\ UNCHANGED <<muxpc, mw, newArgs, routes, regs, rstate, reqPath, curPath,
                   chain, status, matched, methVars, errVars>>

\* the handler of http.StripPrefix is called: it forwards the request with
\* the prefix removed from the path, or answers 404 when the path lacks it
EnterStripPrefix ==
    /\ rstate = "down"
    /\ chain[idx].kind = "strip"
    /\ LET p == TrimPrefix(curPath, chain[idx].prefix)
       IN  IF Len(p) < Len(curPath)
           THEN /\ curPath' = p
                /\ idx' = idx + 1
                /\ UNCHANGED <<rstate, status>>
           ELSE /\ status' = 404
                /\ idx' = idx - 1
                /\ rstate' = After(idx - 1)
                /\ UNCHANGED curPath
    /\ UNCHANGED <<muxpc, mw, newArgs, routes, regs, reqPath, chain, trace,
                   matched, methVars, errVars>>

\* the registered handler is called, and returns
EnterHandler ==
    /\ rstate = "down"
    /\ chain[idx].kind = "handler"
    /\ trace' = Append(trace, Event("serve", chain[idx].name, curPath))
    /\ status' = 200
    /\ idx' = idx - 1
    /\ rstate' = After(idx - 1)
    /\ UNCHANGED <<muxpc, mw, newArgs, routes, regs, reqPath, curPath, chain,
                   matched, methVars, errVars>>

\* next has returned to a middleware: its post-logic runs, then it returns
ExitMiddleware ==
    /\ rstate = "up"
    /\ chain[idx].kind = "mw"
    /\ trace' = Append(trace, Event("post", chain[idx].name, NoPath))
    /\ idx' = idx - 1
    /\ rstate' = After(idx - 1)
    /\ UNCHANGED <<muxpc, mw, newArgs, routes, regs, reqPath, curPath, chain,
                   status, matched, methVars, errVars>>

\* the handler of http.StripPrefix returns
ExitStripPrefix ==
    /\ rstate = "up"
    /\ chain[idx].kind = "strip"
    /\ idx' = idx - 1
    /\ rstate' = After(idx - 1)
    /\ UNCHANGED <<muxpc, mw, newArgs, routes, regs, reqPath, curPath, chain,
                   trace, status, matched, methVars, errVars>>

(***************************************************************************)
(* Methods: the options                                                    *)
(***************************************************************************)
MethodGet == <<"G", "E", "T">>
MethodPost == <<"P", "O", "S", "T">>
MethodPut == <<"P", "U", "T">>
MethodPatch == <<"P", "A", "T", "C", "H">>
MethodDelete == <<"D", "E", "L", "E", "T", "E">>
MethodOptions == <<"O", "P", "T", "I", "O", "N", "S">>
MethodHead == <<"H", "E", "A", "D">>
LowerGet == <<"g", "e", "t">>
EmptyMethod == <<>>

\* what callers pass to the general WithMethod, and the methods of requests
GivenMethods == {EmptyMethod, LowerGet, MethodGet, MethodOptions}
RequestMethods == {MethodGet, LowerGet, MethodPost, MethodDelete,
                   MethodOptions, MethodHead}

Nil == "nil"
MethodHandlerNames == {"h1", "h2"}
GivenHandlers == MethodHandlerNames \cup {Nil}

\* the handler Methods synthesizes for OPTIONS
SynthOptions == "synthesized"

Option(method, h) == [method |-> method, h |-> h]

\* func WithMethod(method string, h http.Handler) methodOption: the checks
\* made when the option is created
WithMethod(method, h) ==
    IF Len(method) = 0
    THEN /\ mpc' = "panic"
         /\ panicMsg' = "method must not be empty"
         /\ UNCHANGED opts
    ELSE IF h = Nil
    THEN /\ mpc' = "panic"
         /\ panicMsg' = "handler must not be nil"
         /\ UNCHANGED opts
    ELSE /\ opts' = Append(opts, Option(method, h))
         /\ UNCHANGED <<mpc, panicMsg>>

WithGET(h) == WithMethod(MethodGet, h)

WithPOST(h) == WithMethod(MethodPost, h)

WithPUT(h) == WithMethod(MethodPut, h)

WithPATCH(h) == WithMethod(MethodPatch, h)

WithDELETE(h) == WithMethod(MethodDelete, h)

WithOPTIONS(h) == WithMethod(MethodOptions, h)

\* the caller is still putting the argument list of Methods together
Arguing ==
    /\ mpc = "args"
    /\ Len(opts) < MaxOpts
    /\ UNCHANGED <<applied, methodHandlers, allowValue, mreq, mresp,
                   muxVars, errVars>>

CallWithMethod ==
    /\ Arguing
    /\ \E method \in GivenMethods, h \in GivenHandlers : WithMethod(method, h)

CallWithGET == Arguing /\ \E h \in GivenHandlers : WithGET(h)

CallWithPOST == Arguing /\ \E h \in GivenHandlers : WithPOST(h)

CallWithPUT == Arguing /\ \E h \in GivenHandlers : WithPUT(h)

CallWithPATCH == Arguing /\ \E h \in GivenHandlers : WithPATCH(h)

CallWithDELETE == Arguing /\ \E h \in GivenHandlers : WithDELETE(h)

CallWithOPTIONS == Arguing /\ \E h \in GivenHandlers : WithOPTIONS(h)

(***************************************************************************)
(* Methods: construction                                                   *)
(***************************************************************************)
CommaSpace == <<",", " ">>

\* strings.Join(elems, sep)
RECURSIVE Join(_, _)
Join(elems, sep) ==
    IF elems = <<>> THEN <<>>
    ELSE IF Len(elems) = 1 THEN elems[1]
    ELSE elems[1] \o sep \o Join(Tail(elems), sep)

\* the orders in which a range over a Go map may visit the keys
Orders(S) ==
    {f \in [1..Cardinality(S) -> S] :
        \A i, j \in 1..Cardinality(S) : i # j => f[i] # f[j]}

\* the closure WithMethod returns, applied to the method table, without
\* its check for an earlier registration
ApplyOptionOverwrites(opt) ==
    /\ methodHandlers' = Put(methodHandlers, opt.method, opt.h)
    /\ UNCHANGED <<mpc, panicMsg>>

\* the closure WithMethod returns, applied to the method table
ApplyOption(opt) ==
    IF opt.method \in DOMAIN methodHandlers
    THEN /\ mpc' = "panic"
         /\ panicMsg' = "method already registered"
         /\ UNCHANGED methodHandlers
    ELSE /\ methodHandlers' = Put(methodHandlers, opt.method, opt.h)
         /\ UNCHANGED <<mpc, panicMsg>>

\* the OPTIONS handler installed whether or not one was given
SynthesizeAlways ==
    \E order \in Orders(DOMAIN methodHandlers \ {MethodOptions}) :
        /\ allowValue' = Join(order, CommaSpace)
        /\ methodHandlers' = Put(methodHandlers, MethodOptions, SynthOptions)

\* the methods collected after the OPTIONS entry is in the table
SynthesizeListsOptions ==
    IF MethodOptions \notin DOMAIN methodHandlers
    THEN \E order \in Orders(DOMAIN methodHandlers \cup {MethodOptions}) :
            /\ allowValue' = Join(order, CommaSpace)
            /\ methodHandlers' = Put(methodHandlers, MethodOptions, SynthOptions)
    ELSE UNCHANGED <<allowValue, methodHandlers>>

\* Methods, after its options: the OPTIONS handler is made if none was given
SynthesizeOptions ==
    IF MethodOptions \notin DOMAIN methodHandlers
    THEN \E order \in Orders(DOMAIN methodHandlers) :
            /\ allowValue' = Join(order, CommaSpace)
            /\ methodHandlers' = Put(methodHandlers, MethodOptions, SynthOptions)
    ELSE UNCHANGED <<allowValue, methodHandlers>>

\* func Methods(options ...methodOption) http.Handler is called
CallMethods ==
    /\ mpc = "args"
    /\ mpc' = "apply"
    /\ methodHandlers' = EmptyMap
    /\ UNCHANGED <<opts, applied, allowValue, panicMsg, mreq, mresp,
                   muxVars, errVars>>

\* Methods: one turn of the loop over the options
MethodsApply ==
    /\ mpc = "apply"
    /\ applied < Len(opts)
    /\ applied' = applied + 1
    /\ ApplyOption(opts[applied + 1])
    /\ UNCHANGED <<opts, allowValue, mreq, mresp, muxVars, errVars>>

\* Methods: the loop is over, the dispatcher is returned
MethodsReturn ==
    /\ mpc = "apply"
    /\ applied = Len(opts)
    /\ SynthesizeOptions
    /\ mpc' = "built"
    /\ UNCHANGED <<opts, applied, panicMsg, mreq, mresp, muxVars, errVars>>

(***************************************************************************)
(* Methods: the dispatcher                                                 *)
(***************************************************************************)
Response(st, allow, acam, body, invoked, nf) ==
    [status |-> st, allow |-> allow, acam |-> acam, body |-> body,
     invoked |-> invoked, notFound |-> nf]

\* http.NotFound(w, r)
NotFound == Response(404, <<>>, <<>>, "404 page not found", <<>>, TRUE)

\* a handler a caller gave: it answers 200 with a body of its own
ServeGiven(h) == Response(200, <<>>, <<>>, h, <<h>>, FALSE)

\* the synthesized OPTIONS handler: it adds the two headers and writes
\* nothing, so the server answers 200 with an empty body
ServeSynthesized ==
    Response(200, <<allowValue>>, <<allowValue>>, "", <<SynthOptions>>, FALSE)

ServeEntry(h) == IF h = SynthOptions THEN ServeSynthesized ELSE ServeGiven(h)

ToUpperChar(c) ==
    CASE c = "g" -> "G"
      [] c = "e" -> "E"
      [] c = "t" -> "T"
      [] OTHER -> c

ToUpper(str) == [i \in 1..Len(str) |-> ToUpperChar(str[i])]

\* the method looked up without regard to case
DispatchIgnoringCase(method) ==
    IF ToUpper(method) \notin DOMAIN methodHandlers
    THEN NotFound
    ELSE ServeEntry(methodHandlers[ToUpper(method)])

\* the handler Methods returns, serving a request with r.Method = method
Dispatch(method) ==
    IF method \notin DOMAIN methodHandlers
    THEN NotFound
    ELSE ServeEntry(methodHandlers[method])

ServeMethods ==
    /\ mpc = "built"
    /\ \E method \in RequestMethods :
          /\ mreq' = method
          /\ mresp' = Dispatch(method)
    /\ UNCHANGED <<mpc, opts, applied, methodHandlers, allowValue, panicMsg,
                   muxVars, errVars>>

MethodsNext ==
    \/ CallWithMethod
    \/ CallWithGET
    \/ CallWithPOST
    \/ CallWithPUT
    \/ CallWithPATCH
    \/ CallWithDELETE
    \/ CallWithOPTIONS
    \/ CallMethods
    \/ MethodsApply
    \/ MethodsReturn
    \/ ServeMethods

(***************************************************************************)
(* ErrorHandler: errors                                                    *)
(*                                                                         *)
(* An error value is the chain errors.As walks, outermost first: any       *)
(* number of fmt.Errorf("...: %w", err) wrappers, then a plain error or a  *)
(* *handlerError.  The nil error is the empty chain.  The strings that    *)
(* Error() builds are sequences of the pieces they are made of.            *)
(***************************************************************************)
CauseTexts == {"db down", "timeout"}
NilCause == "<nil>"
Statuses == {403, 404}
Msgs == {"forbidden", "not found"}
WrapText == "handling request: "

StatusInternalServerError == 500

\* http.StatusText(code)
StatusText(code) ==
    CASE code = 500 -> "Internal Server Error"
      [] code = 404 -> "Not Found"
      [] code = 403 -> "Forbidden"
      [] OTHER -> ""

ErrNode(k, text, st, msg) == [kind |-> k, text |-> text, status |-> st, msg |-> msg]

NilErr == <<>>

\* errors.New(text)
PlainError(text) == <<ErrNode("plain", text, 0, "")>>

\* func Error(err error, status int, msg string) error
Error(cause, st, msg) == <<ErrNode("handlerError", cause, st, msg)>>

\* fmt.Errorf(WrapText + "%w", err)
Wrapped(err) == <<ErrNode("wrap", WrapText, 0, "")>> \o err

RECURSIVE WrappedUpTo(_, _)
WrappedUpTo(S, n) ==
    IF n = 0 THEN S
    ELSE LET inner == WrappedUpTo(S, n - 1)
         IN  inner \cup {Wrapped(e) : e \in inner}

\* what a wrapped function may return
ReturnValues ==
    {NilErr} \cup
    WrappedUpTo({PlainError(c) : c \in CauseTexts}
                \cup {Error(c, st, m) : c \in CauseTexts \cup {NilCause},
                                        st \in Statuses, m \in Msgs},
                MaxWrap)

\* fmt's %q of a string, and of the nil error
Quoted(text) ==
    IF text = NilCause THEN <<"%!q(<nil>)">> ELSE <<"\"", text, "\"">>

\* the cause's own StatusMsg result handed out as the message
StatusMsgGivesCause(node) == [status |-> node.status, msg |-> node.text]

\* func (h *handlerError) StatusMsg() (int, string)
StatusMsg(node) == [status |-> node.status, msg |-> node.msg]

\* func (h *handlerError) Error() string
HandlerErrorString(node) ==
    <<"status=", ToString(node.status), " msg=">> \o Quoted(node.msg)
        \o <<" err=">> \o Quoted(node.text) \o <<"\n">>

\* err.Error(), as fmt.Fprint prints an error
RECURSIVE ErrorString(_)
ErrorString(err) ==
    IF err = NilErr THEN <<>>
    ELSE IF Head(err).kind = "wrap"
    THEN <<Head(err).text>> \o ErrorString(Tail(err))
    ELSE IF Head(err).kind = "handlerError"
    THEN HandlerErrorString(Head(err))
    ELSE <<Head(err).text>>

\* errors.As(err, &e) for e of type interface{ StatusMsg() (int, string) }:
\* the first error of the chain that has the method (<<>>: none has).
\* fmt's wrapper unwraps to the error it wraps; a plain error and a
\* *handlerError unwrap to nothing.
RECURSIVE As(_)
As(err) ==
    IF err = NilErr THEN <<>>
    ELSE IF Head(err).kind = "handlerError" THEN <<Head(err)>>
    ELSE IF Head(err).kind = "wrap" THEN As(Tail(err))
    ELSE <<>>

(***************************************************************************)
(* ErrorHandler: configuration                                             *)
(***************************************************************************)
\* A sink is an io.Writer or nil; a response-writing function is a function
\* (a nil one cannot be called).
Stderr == "os.Stderr"
HttpError == "http.Error"
Writers == {"buffer", Nil}
ErrFuncs == {"custom"}

\* func WithErrWriter(w io.Writer) errOption
WithErrWriter(w) == [field |-> "writer", value |-> w]

\* func WithErrFunc(f func(http.ResponseWriter, string, int)) errOption
WithErrFunc(f) == [field |-> "errFunc", value |-> f]

ErrOptions ==
    {WithErrWriter(w) : w \in Writers} \cup {WithErrFunc(f) : f \in ErrFuncs}

\* the loop of NewErrorHandler: the options applied in order
RECURSIVE ApplyErrOptions(_, _)
ApplyErrOptions(eh, options) ==
    IF options = <<>> THEN eh
    ELSE ApplyErrOptions(
             IF Head(options).field = "writer"
             THEN [eh EXCEPT !.writer = Head(options).value]
             ELSE [eh EXCEPT !.errFunc = Head(options).value],
             Tail(options))

\* func NewErrorHandler(options ...errOption) *ErrorHandler
NewErrorHandler(options) ==
    ApplyErrOptions([writer |-> Stderr, errFunc |-> HttpError], options)

CallNewErrorHandler ==
    /\ epc = "new"
    /\ \E options \in SeqsUpTo(ErrOptions, MaxErrOpts) :
          /\ writer' = NewErrorHandler(options).writer
          /\ errFunc' = NewErrorHandler(options).errFunc
    /\ epc' = "ready"
    /\ UNCHANGED <<retErr, events, muxVars, methVars>>

(***************************************************************************)
(* ErrorHandler: the adapter                                               *)
(***************************************************************************)
Call(e, target, msg, st, text) ==
    [ev |-> e, target |-> target, msg |-> msg, status |-> st, text |-> text]

CallH == Call("h", "", "", 0, <<>>)

CallErrFunc(r) == Call("errFunc", errFunc, r.msg, r.status, <<>>)

CallWrite(err) == Call("write", writer, "", 0, ErrorString(err))

\* an error without the capability answered with its own text
ClientResponseLeaksPlain(err) ==
    IF As(err) # <<>>
    THEN StatusMsg(As(err)[1])
    ELSE [status |-> StatusInternalServerError, msg |-> ErrorString(err)[1]]

\* Err: the message and status handed to errFunc for a non-nil error
ClientResponse(err) ==
    IF As(err) # <<>>
    THEN StatusMsg(As(err)[1])
    ELSE [status |-> StatusInternalServerError,
          msg |-> StatusText(StatusInternalServerError)]

\* the error written to the sink before the client is answered
ErrLogsFirst(err) ==
    events' =
        <<CallH>>
        \o (IF err = NilErr THEN <<>>
            ELSE (IF writer # Nil THEN <<CallWrite(err)>> ELSE <<>>)
                 \o <<CallErrFunc(ClientResponse(err))>>)

\* the handler Err returns, serving a request whose wrapped function
\* returns err
Err(err) ==
    events' =
        <<CallH>>
        \o (IF err = NilErr THEN <<>>
            ELSE <<CallErrFunc(ClientResponse(err))>>
                 \o (IF writer # Nil THEN <<CallWrite(err)>> ELSE <<>>))

ServeErr ==
    /\ epc \in {"ready", "done"}
    /\ \E err \in ReturnValues :
          /\ retErr' = err
          /\ Err(err)
    /\ epc' = "done"
    /\ UNCHANGED <<writer, errFunc, muxVars, methVars>>

ErrNext ==
    \/ CallNewErrorHandler
    \/ ServeErr

(***************************************************************************)
(* The three parts of the package are independent of each other; each is  *)
(* checked under a specification of its own, in which the other two rest. *)
(***************************************************************************)
MuxInit ==
    /\ muxpc = "new"
    /\ mw = <<>>
    /\ newArgs = <<>>
    /\ routes = EmptyMap
    /\ regs = EmptyMap
    /\ rstate = "idle"
    /\ reqPath = NoPath
    /\ curPath = NoPath
    /\ chain = <<>>
    /\ idx = 0
    /\ trace = <<>>
    /\ status = 0
    /\ matched = NoPath

NoResponse == [status |-> 0, allow |-> <<>>, acam |-> <<>>, body |-> "",
               invoked |-> <<>>, notFound |-> FALSE]

MethodsInit ==
    /\ mpc = "args"
    /\ opts = <<>>
    /\ applied = 0
    /\ methodHandlers = EmptyMap
    /\ allowValue = <<>>
    /\ panicMsg = ""
    /\ mreq = <<>>
    /\ mresp = NoResponse

ErrInit ==
    /\ epc = "new"
    /\ writer = Nil
    /\ errFunc = Nil
    /\ retErr = NilErr
    /\ events = <<>>

Init == MuxInit /\ MethodsInit /\ ErrInit

MuxNext ==
    \/ CallNew
    \/ CallHandle
    \/ CallHandleFunc
    \/ CallGroup
    \/ CallServeHTTP
    \/ EnterMiddleware
    \/ EnterStripPrefix
    \/ EnterHandler
    \/ ExitMiddleware
    \/ ExitStripPrefix

SpecMux == Init /\ [][MuxNext]_vars

SpecMethods == Init /\ [][MethodsNext]_vars

SpecErr == Init /\ [][ErrNext]_vars

(***************************************************************************)
(* Mux: properties                                                         *)
(***************************************************************************)
PreEvents(ms) == [i \in 1..Len(ms) |-> Event("pre", ms[i], NoPath)]

PostEvents(ms) == [i \in 1..Len(ms) |-> Event("post", ms[Len(ms) + 1 - i], NoPath)]

\* m1 .. mk, c1 .. cn, H, cn .. c1, mk .. m1
ExpectedTrace(muxLevel, callLevel, h, path) ==
    PreEvents(muxLevel) \o PreEvents(callLevel) \o <<Event("serve", h, path)>>
        \o PostEvents(callLevel) \o PostEvents(muxLevel)

Routed == rstate \in {"down", "up", "done"} /\ matched # NoPath

\* C1: a request routed to a pattern registered through Handle enters the
\* mux-level middleware of New in list order, then the call-level middleware
\* of Handle in list order, then the handler, and unwinds in the reverse
\* order: at every step what has run is a prefix of that sequence, and once
\* the request is done it is the whole sequence.
C1_MiddlewareOrder ==
    (Routed /\ regs[matched].via = "Handle") =>
        LET r == regs[matched]
            e == ExpectedTrace(newArgs, r.cmw, r.h, reqPath)
        IN  /\ HasPrefix(e, trace)
            /\ rstate = "done" => trace = e

C1_Witness ==
    /\ rstate = "done"
    /\ matched # NoPath
    /\ regs[matched].via = "Handle"
    /\ newArgs = <<"a", "b">>
    /\ regs[matched].cmw = <<"b", "a">>
    /\ Len(trace) = 9

MoreSpecific(p, path) ==
    \/ \E q \in DOMAIN routes :
          /\ Len(q) > Len(p)
          /\ q = path \/ (HasSuffix(q, Slash) /\ HasPrefix(path, q))
    \/ (path \notin DOMAIN routes /\ (path \o Slash) \in DOMAIN routes)

C9_EmptyWrapIsIdentity ==
    /\ \A p \in DOMAIN routes : WrapMiddleware(<<>>, routes[p]) = routes[p]
    /\ \A p \in DOMAIN routes :
          (newArgs = <<>> /\ regs[p].via = "Handle" /\ regs[p].cmw = <<>>) =>
              /\ routes[p] = Handler(regs[p].h)
              /\ (rstate = "done" /\ matched = p) =>
                     trace = <<Event("serve", regs[p].h, reqPath)>>

C9_Witness ==
    /\ rstate = "done"
    /\ matched = PatApi
    /\ newArgs = <<>>
    /\ regs[PatApi].via = "Handle"
    /\ regs[PatApi].cmw = <<>>
    /\ Len(trace) = 1

(***************************************************************************)
(* Methods: properties                                                     *)
(***************************************************************************)
\* the first place sep occurs in str (0: nowhere)
IndexOf(str, sep) ==
    LET at == {i \in 1..(Len(str) - Len(sep) + 1) :
                  SubSeq(str, i, i + Len(sep) - 1) = sep}
    IN  IF at = {} THEN 0 ELSE CHOOSE i \in at : \A j \in at : i <= j

RECURSIVE Split(_, _)
Split(str, sep) ==
    LET i == IndexOf(str, sep)
    IN  IF i = 0 THEN <<str>>
        ELSE <<SubSeq(str, 1, i - 1)>>
                 \o Split(SubSeq(str, i + Len(sep), Len(str)), sep)

\* the elements of a ", "-separated list; the empty string is the empty list
ListElements(value) == IF value = <<>> THEN <<>> ELSE Split(value, CommaSpace)

Range(seq) == {seq[i] : i \in 1..Len(seq)}

\* the methods the options given to Methods register
Registered == {opts[i].method : i \in 1..Len(opts)}

\* the handler given for a method by the first option that names it
GivenFor(method) ==
    opts[CHOOSE i \in 1..Len(opts) :
            /\ opts[i].method = method
            /\ \A j \in 1..(i - 1) : opts[j].method # method].h

Served == mpc = "built" /\ mreq # <<>>

\* C2: a request whose method, compared exactly (case matters), is in the
\* method table is answered by that method's handler alone and not by the
\* dispatcher's 404; a request whose method is not in the table reaches no
\* handler and is answered 404, never 405.
C2_DispatchByMethod ==
    Served =>
        IF mreq \in Registered
        THEN /\ mresp.invoked = <<GivenFor(mreq)>>
             /\ ~mresp.notFound
        ELSE IF mreq = MethodOptions
        THEN /\ mresp.invoked = <<SynthOptions>>
             /\ ~mresp.notFound
        ELSE /\ mresp.invoked = <<>>
             /\ mresp.notFound
             /\ mresp.status = 404

C2_Witness ==
    /\ Served
    /\ Registered = {MethodGet, MethodOptions}
    /\ mreq = MethodDelete
    /\ mresp.status = 404
    /\ mresp.invoked = <<>>

\* C3: when no option registers OPTIONS, an OPTIONS request is answered 200
\* with an empty body and with Allow and Access-Control-Allow-Methods set
\* to one and the same value, a ", "-separated list naming every registered
\* method once and nothing else (so not OPTIONS), in any order.
C3_SynthesizedOptions ==
    (Served /\ MethodOptions \notin Registered /\ mreq = MethodOptions) =>
        /\ mresp.status = 200
        /\ mresp.body = ""
        /\ Len(mresp.allow) = 1
        /\ mresp.acam = mresp.allow
        /\ LET listed == ListElements(mresp.allow[1])
           IN  /\ Range(listed) = Registered
               /\ Len(listed) = Cardinality(Registered)
               /\ MethodOptions \notin Range(listed)

C3_Witness ==
    /\ Served
    /\ mreq = MethodOptions
    /\ Len(opts) = 2
    /\ opts[1].method = MethodGet
    /\ opts[2].method = MethodPost
    /\ mresp.allow = <<MethodPost \o CommaSpace \o MethodGet>>
    /\ mresp.status = 200

\* C4: whatever options Methods returns for, the empty list included, the
\* method table has an OPTIONS entry: the handler given for OPTIONS when
\* one was given, the synthesized one otherwise; so an OPTIONS request is
\* never answered by the dispatcher's 404.
C4_OptionsAlwaysPresent ==
    mpc = "built" =>
        /\ MethodOptions \in DOMAIN methodHandlers
        /\ methodHandlers[MethodOptions] =
               IF MethodOptions \in Registered
               THEN GivenFor(MethodOptions) ELSE SynthOptions
        /\ mreq = MethodOptions =>
               /\ ~mresp.notFound
               /\ mresp.invoked = <<methodHandlers[MethodOptions]>>

C4_Witness ==
    /\ Served
    /\ mreq = MethodOptions
    /\ Len(opts) = 2
    /\ opts[2] = Option(MethodOptions, "h2")
    /\ mresp.invoked = <<"h2">>

\* some option names a method that an earlier option names
Duplicated(n) ==
    \E i, j \in 1..n : i < j /\ opts[i].method = opts[j].method

\* C5: when two options of one Methods call name the same method, Methods
\* panics while it applies the second of them and returns no dispatcher, so
\* that no request is served; at no time does the table hold another
\* handler for a method than the one first registered for it.
C5_DuplicatePanics ==
    /\ mpc = "built" => ~Duplicated(Len(opts))
    /\ mreq # <<>> => ~Duplicated(Len(opts))
    /\ mpc = "apply" => ~Duplicated(applied)
    /\ Duplicated(applied) =>
          /\ mpc = "panic"
          /\ panicMsg = "method already registered"
          /\ ~Duplicated(applied - 1)
    /\ mpc \in {"apply", "panic"} =>
          \A m \in DOMAIN methodHandlers : methodHandlers[m] = GivenFor(m)

C5_Witness ==
    /\ mpc = "panic"
    /\ panicMsg = "method already registered"
    /\ applied = 2
    /\ opts[1] = Option(MethodGet, "h1")
    /\ opts[2] = Option(MethodGet, "h2")
    /\ methodHandlers[MethodGet] = "h1"

(***************************************************************************)
(* ErrorHandler: properties                                                *)
(***************************************************************************)
EventsOf(kind) == {i \in 1..Len(events) : events[i].ev = kind}

\* the error of the chain that carries a status and a message, if any
Carriers(err) == {i \in 1..Len(err) : err[i].kind = "handlerError"}

\* C7: serving a request, the adapter calls the wrapped function exactly
\* once; when it returns nil, errFunc is not called; when it returns an
\* error with the StatusMsg capability, errFunc is called exactly once,
\* with that error's message and status; when it returns an error without
\* it, errFunc is called exactly once, with "Internal Server Error" and 500.
C7_ErrMapsError ==
    epc = "done" =>
        /\ EventsOf("h") = {1}
        /\ IF retErr = NilErr
           THEN EventsOf("errFunc") = {}
           ELSE /\ EventsOf("errFunc") = {2}
                /\ events[2].target = errFunc
                /\ IF Carriers(retErr) # {}
                   THEN \E i \in Carriers(retErr) :
                           /\ events[2].msg = retErr[i].msg
                           /\ events[2].status = retErr[i].status
                   ELSE /\ events[2].msg = "Internal Server Error"
                        /\ events[2].status = 500

C7_Witness ==
    /\ epc = "done"
    /\ retErr = PlainError("db down")
    /\ events[2].ev = "errFunc"
    /\ events[2].msg = "Internal Server Error"
    /\ events[2].status = 500

\* C8: for an error made by Error(cause, s, m), errFunc is handed m and s
\* no matter what the cause is: what it is handed is what it would be
\* handed for Error(cause2, s, m) with any other cause, and the cause's
\* text is not among it.
C8_ClientIndependentOfCause ==
    (epc = "done" /\ Len(retErr) = 1 /\ retErr[1].kind = "handlerError") =>
        LET s == retErr[1].status
            m == retErr[1].msg
        IN  /\ EventsOf("errFunc") = {2}
            /\ events[2].msg = m
            /\ events[2].status = s
            /\ events[2].msg # retErr[1].text
            /\ events[2].text = <<>>
            /\ \A cause2 \in CauseTexts \cup {NilCause} :
                  CallErrFunc(ClientResponse(Error(cause2, s, m))) = events[2]

C8_Witness ==
    /\ epc = "done"
    /\ retErr = Error("db down", 403, "forbidden")
    /\ events[2].ev = "errFunc"
    /\ events[2].msg = "forbidden"
    /\ events[2].status = 403

\* C10: serving a request, the adapter writes to the sink exactly once,
\* the whole Error() string of the returned error (the cause's text in
\* it), when the wrapped function returned an error and the sink is not
\* nil, and it does so after errFunc was called; otherwise it writes
\* nothing.  So it is for errors with the StatusMsg capability and without.
C10_SinkWrittenOnce ==
    epc = "done" =>
        IF retErr # NilErr /\ writer # Nil
        THEN /\ EventsOf("write") = {3}
             /\ EventsOf("errFunc") = {2}
             /\ events[3].target = writer
             /\ events[3].text = ErrorString(retErr)
             /\ \A c \in CauseTexts :
                   retErr[Len(retErr)].text = c => c \in Range(events[3].text)
        ELSE EventsOf("write") = {}

C10_Witness ==
    /\ epc = "done"
    /\ writer = "buffer"
    /\ retErr = Wrapped(Error("timeout", 404, "not found"))
    /\ events[3].ev = "write"
    /\ "timeout" \in Range(events[3].text)

====
